---- MODULE Spec2Model ----
(***************************************************************************)
(* Line-crossing counter of the vehicle detection system.                  *)
(*                                                                         *)
(* The module models src/src/line_counter.py (class LineCounter), the      *)
(* functions of src/src/utils.py it rests on (line_intersection,           *)
(* calculate_centroid), src/src/tracker.py (class ObjectTracker) and the   *)
(* frame loop of src/src/video_processor.py (VideoProcessor.process_video).*)
(*                                                                         *)
(* Points are pairs <<x, y>> of integers; a Python tuple index p[0], p[1]  *)
(* is p[1], p[2] here.  CrossingEvent.timestamp is the wall clock at the   *)
(* moment of the crossing; no modelled operation reads it back, and it is  *)
(* left out of the event record.                                           *)
(*                                                                         *)
(* Coordinates are Python floats.  A finite float is modelled by an        *)
(* integer; nan, inf and -inf are three integers beyond every finite value *)
(* the model computes, and the float operators below give them the IEEE    *)
(* 754 results Python gives.                                               *)
(***************************************************************************)
EXTENDS Integers, Sequences, FiniteSets

VARIABLES
    config,     \* the AppConfig handed to LineCounter(config)
    lc,         \* the LineCounter object, or the exception __init__ raised
    op,         \* the operation that produced the current state
    hit,        \* the identities whose step intersected the line in the
                \* last update(), where the specification does not record
                \* the list
    discarded,  \* the number of events the last reset() cleared
    geom,       \* arguments and result of a pure-function call
    tick,       \* the list the last update() was called with, where the
                \* specification records it
    tracker,    \* the ObjectTracker object
    returned,   \* the list the last ObjectTracker.update() returned
    ever,       \* the track ids of all the objects ObjectTracker.update()
                \* has returned so far
    counters,   \* two LineCounter objects, one per video stream
    alone,      \* what each of the two would hold had its stream run alone
    called,     \* which of the two the last call was made on
    added,      \* the number of events the last update() appended, where
                \* the specification records the list
    earlier,    \* the crossed_ids the last reset() cleared
    observed,   \* per track id, the centroids of all the objects
                \* ObjectTracker.update() has returned for it, in order,
                \* where the specification follows long tracks
    vp          \* the VideoProcessor inside process_video: its locals, the
                \* display flag, and the frames each stage has been given

vars ==
    <<config, lc, op, hit, discarded, geom, tick, tracker, returned, ever,
      counters, alone, called, added, earlier, observed, vp>>

----------------------------------------------------------------------------
(* Bounds of the model *)

\* observed centroids have coordinates in 0..MaxCoord
MaxCoord == 1

\* coordinates of the pure-function checks range over 0..GeomCoord
GeomCoord == 2

\* the tracker is followed until a track has been returned MaxSeen times
MaxSeen == 2

\* a video has at most MaxFrames frames
MaxFrames == 3

\* a long track is followed until it has been returned MaxObserved times
MaxObserved == 31

\* the centroids a vehicle is observed at: the points of the diagonal from
\* the origin, which crosses the configured line, and the line's two ends
Points ==
    { p \in (0..MaxCoord) \X (0..MaxCoord) : p[1] = p[2] \/ p[1] + p[2] = 1 }

GeomPoints == (0..GeomCoord) \X (0..GeomCoord)

\* track ids handed out by the tracker
TrackIds == {7, 8}

\* the class name the detector gives each tracked vehicle
ClassOf == [i \in TrackIds |-> IF i = 7 THEN "car" ELSE "truck"]

\* config.line.coordinates values: a proper line (the anti-diagonal of the
\* unit square), a zero-length line, and lists that are too short or too long
LineCoordinates ==
    { <<0, 1, 1, 0>>, <<1, 1, 1, 1>>, <<0, 0, 0, 0>>,
      <<0, 1, 1>>, << >>, <<0, 1, 1, 0, 0>> }

\* config.line.direction values
LineDirections == {"vertical", "horizontal"}

----------------------------------------------------------------------------
(* src/src/utils.py *)

\* float("inf")
inf == 1000000

\* float("-inf")
neginf == -inf

\* float("nan")
nan == 2000000

isfinite(x) == neginf < x /\ x < inf

\* both coordinates of a point are finite
finite(p) == isfinite(p[1]) /\ isfinite(p[2])

\* x - y on floats: inf - inf is nan
FloatSub(x, y) ==
    IF isfinite(x) /\ isfinite(y) THEN x - y
    ELSE IF x = nan \/ y = nan THEN nan
    ELSE IF x = y THEN nan
    ELSE IF isfinite(x) THEN (IF y = inf THEN neginf ELSE inf)
    ELSE x

\* x * y on floats: 0 * inf is nan
FloatMul(x, y) ==
    IF isfinite(x) /\ isfinite(y) THEN x * y
    ELSE IF x = nan \/ y = nan THEN nan
    ELSE IF x = 0 \/ y = 0 THEN nan
    ELSE IF (x > 0) = (y > 0) THEN inf
    ELSE neginf

\* x > y on floats: false when either is nan
FloatGt(x, y) == x # nan /\ y # nan /\ x > y

\* x < y on floats: false when either is nan
FloatLt(x, y) == x # nan /\ y # nan /\ x < y

\* x <= y on floats: false when either is nan
FloatLe(x, y) == x # nan /\ y # nan /\ x <= y

\* x >= y on floats: false when either is nan
FloatGe(x, y) == x # nan /\ y # nan /\ x >= y

\* variant: the orientation test with >= (a zero orientation counts as
\* counter-clockwise)
ccw_or_collinear(A, B, C) ==
    IF finite(A) /\ finite(B) /\ finite(C)
    THEN (C[2] - A[2]) * (B[1] - A[1]) >= (B[2] - A[2]) * (C[1] - A[1])
    ELSE FloatGe(FloatMul(FloatSub(C[2], A[2]), FloatSub(B[1], A[1])),
                 FloatMul(FloatSub(B[2], A[2]), FloatSub(C[1], A[1])))

\* on finite points the float operators are the integer ones
ccw(A, B, C) ==
    IF finite(A) /\ finite(B) /\ finite(C)
    THEN (C[2] - A[2]) * (B[1] - A[1]) > (B[2] - A[2]) * (C[1] - A[1])
    ELSE FloatGt(FloatMul(FloatSub(C[2], A[2]), FloatSub(B[1], A[1])),
                 FloatMul(FloatSub(B[2], A[2]), FloatSub(C[1], A[1])))

\* variant: a step that starts on the supporting line of the segment counts
\* as intersecting
line_intersection_touching(p1, p2, line_start, line_end) ==
    \/ /\ ccw(p1, line_start, line_end) # ccw(p2, line_start, line_end)
       /\ ccw(p1, p2, line_start) # ccw(p1, p2, line_end)
    \/ /\ ~ccw(p1, line_start, line_end)
       /\ ~ccw(p1, line_end, line_start)

\* variant: only the first of the two orientation tests is made
line_intersection_first_test(p1, p2, line_start, line_end) ==
    ccw(p1, line_start, line_end) # ccw(p2, line_start, line_end)

line_intersection(p1, p2, line_start, line_end) ==
    /\ ccw(p1, line_start, line_end) # ccw(p2, line_start, line_end)
    /\ ccw(p1, p2, line_start) # ccw(p1, p2, line_end)

----------------------------------------------------------------------------
(* src/src/line_counter.py *)

\* CrossingEvent(track_id, timestamp, direction, class_name, centroid)
CrossingEvent(track_id, direction, class_name, centroid) ==
    [track_id |-> track_id, direction |-> direction,
     class_name |-> class_name, centroid |-> centroid]

\* the outcome of a constructor call that raised
Raised(exc) == [raised |-> exc]

\* a LineCounter object exists
Constructed(self) == "raised" \notin DOMAIN self

\* variant: missing coordinates are read as 0 instead of raising
LineCounterInit_padded(cfg) ==
    LET given == cfg.line.coordinates
        coordinates == [k \in 1..4 |-> IF k <= Len(given) THEN given[k] ELSE 0]
    IN  [ line_start         |-> <<coordinates[1], coordinates[2]>>,
          line_end           |-> <<coordinates[3], coordinates[4]>>,
          direction_type     |-> cfg.line.direction,
          previous_positions |-> << >>,
          crossed_ids        |-> {},
          crossing_events    |-> << >>,
          count_up           |-> 0,
          count_down         |-> 0,
          count_left         |-> 0,
          count_right        |-> 0 ]

\* variant: a line whose start equals its end is refused
LineCounterInit_validated(cfg) ==
    LET coordinates == cfg.line.coordinates IN
    IF Len(coordinates) # 4
    THEN Raised("ValueError")
    ELSE IF coordinates[1] = coordinates[3] /\ coordinates[2] = coordinates[4]
    THEN Raised("ValueError")
    ELSE [ line_start         |-> <<coordinates[1], coordinates[2]>>,
           line_end           |-> <<coordinates[3], coordinates[4]>>,
           direction_type     |-> cfg.line.direction,
           previous_positions |-> << >>,
           crossed_ids        |-> {},
           crossing_events    |-> << >>,
           count_up           |-> 0,
           count_down         |-> 0,
           count_left         |-> 0,
           count_right        |-> 0 ]

\* LineCounter.__init__: the unpacking x1, y1, x2, y2 = coordinates raises
\* ValueError unless the list has exactly four entries
LineCounterInit(cfg) ==
    LET coordinates == cfg.line.coordinates IN
    IF Len(coordinates) # 4
    THEN Raised("ValueError")
    ELSE [ line_start         |-> <<coordinates[1], coordinates[2]>>,
           line_end           |-> <<coordinates[3], coordinates[4]>>,
           direction_type     |-> cfg.line.direction,
           previous_positions |-> << >>,
           crossed_ids        |-> {},
           crossing_events    |-> << >>,
           count_up           |-> 0,
           count_down         |-> 0,
           count_left         |-> 0,
           count_right        |-> 0 ]

\* variant: only "horizontal" gives "left" or "right"; any other string
\* gives "unknown"
_determine_direction_strict(self, prev_pos, current_pos) ==
    IF self.direction_type = "vertical"
    THEN IF FloatLt(current_pos[2], prev_pos[2]) THEN "up" ELSE "down"
    ELSE IF self.direction_type = "horizontal"
    THEN IF FloatLt(current_pos[1], prev_pos[1]) THEN "left" ELSE "right"
    ELSE "unknown"

\* variant: the comparisons made with <= (a tie gives "up" or "left")
_determine_direction_tie(self, prev_pos, current_pos) ==
    IF self.direction_type = "vertical"
    THEN IF FloatLe(current_pos[2], prev_pos[2]) THEN "up" ELSE "down"
    ELSE IF FloatLe(current_pos[1], prev_pos[1]) THEN "left" ELSE "right"

_determine_direction(self, prev_pos, current_pos) ==
    IF self.direction_type = "vertical"
    THEN IF FloatLt(current_pos[2], prev_pos[2]) THEN "up" ELSE "down"
    ELSE IF FloatLt(current_pos[1], prev_pos[1]) THEN "left" ELSE "right"

\* variant: the "down" counter is decremented
_record_crossing_decrement(self, track_id, direction, class_name, centroid) ==
    [self EXCEPT
        !.crossing_events =
            Append(@, CrossingEvent(track_id, direction, class_name, centroid)),
        !.count_up    = IF direction = "up" THEN @ + 1 ELSE @,
        !.count_down  = IF direction = "down" THEN @ - 1 ELSE @,
        !.count_left  = IF direction = "left" THEN @ + 1 ELSE @,
        !.count_right = IF direction = "right" THEN @ - 1 ELSE @]

\* variant: the event is put at the head of the log (insert(0, event))
_record_crossing_prepend(self, track_id, direction, class_name, centroid) ==
    [self EXCEPT
        !.crossing_events =
            <<CrossingEvent(track_id, direction, class_name, centroid)>> \o @,
        !.count_up    = IF direction = "up" THEN @ + 1 ELSE @,
        !.count_down  = IF direction = "down" THEN @ + 1 ELSE @,
        !.count_left  = IF direction = "left" THEN @ + 1 ELSE @,
        !.count_right = IF direction = "right" THEN @ + 1 ELSE @]

\* variant: the branch for "left" is missing
_record_crossing_no_left(self, track_id, direction, class_name, centroid) ==
    [self EXCEPT
        !.crossing_events =
            Append(@, CrossingEvent(track_id, direction, class_name, centroid)),
        !.count_up    = IF direction = "up" THEN @ + 1 ELSE @,
        !.count_down  = IF direction = "down" THEN @ + 1 ELSE @,
        !.count_right = IF direction = "right" THEN @ + 1 ELSE @]

_record_crossing(self, track_id, direction, class_name, centroid) ==
    [self EXCEPT
        !.crossing_events =
            Append(@, CrossingEvent(track_id, direction, class_name, centroid)),
        !.count_up    = IF direction = "up" THEN @ + 1 ELSE @,
        !.count_down  = IF direction = "down" THEN @ + 1 ELSE @,
        !.count_left  = IF direction = "left" THEN @ + 1 ELSE @,
        !.count_right = IF direction = "right" THEN @ + 1 ELSE @]

\* variant: the dict is replaced by one that holds this identity only
\* (self.previous_positions = {track_id: current_pos})
StorePosition_rebinds(self, track_id, current_pos) ==
    [self EXCEPT !.previous_positions = [i \in {track_id} |-> current_pos]]

\* self.previous_positions[track_id] = current_pos
StorePosition(self, track_id, current_pos) ==
    [self EXCEPT !.previous_positions =
        [i \in DOMAIN @ \cup {track_id} |->
            IF i = track_id THEN current_pos ELSE @[i]]]

\* self.crossed_ids.add(track_id)
MarkCrossed(self, track_id) ==
    [self EXCEPT !.crossed_ids = @ \cup {track_id}]

\* variant: every intersecting step is recorded (no crossed_ids test)
CheckCrossing_every_time(self, obj) ==
    LET track_id    == obj.track_id
        current_pos == obj.centroid
        prev_pos    == self.previous_positions[track_id]
    IN  IF line_intersection(prev_pos, current_pos,
                             self.line_start, self.line_end)
        THEN MarkCrossed(
                 _record_crossing(self, track_id,
                     _determine_direction(self, prev_pos, current_pos),
                     obj.class_name, current_pos),
                 track_id)
        ELSE self

\* variant: the test is "crossed_ids is empty" instead of membership
CheckCrossing_any_crossed(self, obj) ==
    LET track_id    == obj.track_id
        current_pos == obj.centroid
        prev_pos    == self.previous_positions[track_id]
    IN  IF line_intersection(prev_pos, current_pos,
                             self.line_start, self.line_end)
        THEN IF self.crossed_ids = {}
             THEN MarkCrossed(
                      _record_crossing(self, track_id,
                          _determine_direction(self, prev_pos, current_pos),
                          obj.class_name, current_pos),
                      track_id)
             ELSE self
        ELSE self

\* variant: the crossing is recorded but the id is not put in crossed_ids
CheckCrossing_unmarked(self, obj) ==
    LET track_id    == obj.track_id
        current_pos == obj.centroid
        prev_pos    == self.previous_positions[track_id]
    IN  IF line_intersection(prev_pos, current_pos,
                             self.line_start, self.line_end)
        THEN IF track_id \notin self.crossed_ids
             THEN _record_crossing(self, track_id,
                      _determine_direction(self, prev_pos, current_pos),
                      obj.class_name, current_pos)
             ELSE self
        ELSE self

\* variant: the event carries the previous centroid instead of the current
CheckCrossing_previous_centroid(self, obj) ==
    LET track_id    == obj.track_id
        current_pos == obj.centroid
        prev_pos    == self.previous_positions[track_id]
    IN  IF line_intersection(prev_pos, current_pos,
                             self.line_start, self.line_end)
        THEN IF track_id \notin self.crossed_ids
             THEN MarkCrossed(
                      _record_crossing(self, track_id,
                          _determine_direction(self, prev_pos, current_pos),
                          obj.class_name, prev_pos),
                      track_id)
             ELSE self
        ELSE self

\* variant: a step that does not intersect the line takes the identity out
\* of crossed_ids, so that it can be counted again
CheckCrossing_rearm(self, obj) ==
    LET track_id    == obj.track_id
        current_pos == obj.centroid
        prev_pos    == self.previous_positions[track_id]
    IN  IF line_intersection(prev_pos, current_pos,
                             self.line_start, self.line_end)
        THEN IF track_id \notin self.crossed_ids
             THEN MarkCrossed(
                      _record_crossing(self, track_id,
                          _determine_direction(self, prev_pos, current_pos),
                          obj.class_name, current_pos),
                      track_id)
             ELSE self
        ELSE [self EXCEPT !.crossed_ids = @ \ {track_id}]

\* the crossing branch of the loop body of update()
CheckCrossing(self, obj) ==
    LET track_id    == obj.track_id
        current_pos == obj.centroid
        prev_pos    == self.previous_positions[track_id]
    IN  IF line_intersection(prev_pos, current_pos,
                             self.line_start, self.line_end)
        THEN IF track_id \notin self.crossed_ids
             THEN MarkCrossed(
                      _record_crossing(self, track_id,
                          _determine_direction(self, prev_pos, current_pos),
                          obj.class_name, current_pos),
                      track_id)
             ELSE self
        ELSE self

\* variant: an identity without a previous position is taken to come from
\* the origin (previous_positions.get(track_id, (0, 0)))
UpdateOne_default_origin(self, obj) ==
    LET known == IF obj.track_id \in DOMAIN self.previous_positions
                 THEN self
                 ELSE StorePosition(self, obj.track_id, <<0, 0>>)
    IN  StorePosition(CheckCrossing(known, obj), obj.track_id, obj.centroid)

\* variant: an identity that has crossed is no longer followed (its entry is
\* deleted from previous_positions)
UpdateOne_drop_crossed(self, obj) ==
    LET checked == IF obj.track_id \in DOMAIN self.previous_positions
                   THEN CheckCrossing(self, obj)
                   ELSE self
    IN  IF obj.track_id \in checked.crossed_ids
        THEN [checked EXCEPT !.previous_positions =
                 [i \in DOMAIN @ \ {obj.track_id} |-> @[i]]]
        ELSE StorePosition(checked, obj.track_id, obj.centroid)

\* variant: the position is not stored when the step intersects the line
UpdateOne_store_unless_intersecting(self, obj) ==
    IF /\ obj.track_id \in DOMAIN self.previous_positions
       /\ line_intersection(self.previous_positions[obj.track_id],
                            obj.centroid, self.line_start, self.line_end)
    THEN CheckCrossing(self, obj)
    ELSE StorePosition(self, obj.track_id, obj.centroid)

\* variant: an object whose centroid is not finite is skipped
UpdateOne_skip_non_finite(self, obj) ==
    IF ~finite(obj.centroid)
    THEN self
    ELSE LET checked == IF obj.track_id \in DOMAIN self.previous_positions
                        THEN CheckCrossing(self, obj)
                        ELSE self
         IN  StorePosition(checked, obj.track_id, obj.centroid)

\* one iteration of the loop of update()
UpdateOne(self, obj) ==
    LET checked == IF obj.track_id \in DOMAIN self.previous_positions
                   THEN CheckCrossing(self, obj)
                   ELSE self
    IN  StorePosition(checked, obj.track_id, obj.centroid)

\* LineCounter.update(tracked_objects)
RECURSIVE update(_, _)
update(self, tracked_objects) ==
    IF tracked_objects = << >>
    THEN self
    ELSE update(UpdateOne(self, Head(tracked_objects)), Tail(tracked_objects))

get_total_count(self) ==
    self.count_up + self.count_down + self.count_left + self.count_right

get_statistics(self) ==
    [total |-> get_total_count(self), up |-> self.count_up,
     down |-> self.count_down, left |-> self.count_left,
     right |-> self.count_right]

\* variant: the line is cleared with the rest
reset_clears_line(self) ==
    [self EXCEPT
        !.line_start         = <<0, 0>>,
        !.line_end           = <<0, 0>>,
        !.previous_positions = << >>,
        !.crossed_ids        = {},
        !.crossing_events    = << >>,
        !.count_up           = 0,
        !.count_down         = 0,
        !.count_left         = 0,
        !.count_right        = 0]

\* variant: previous_positions is not cleared
reset_keeps_positions(self) ==
    [self EXCEPT
        !.crossed_ids        = {},
        !.crossing_events    = << >>,
        !.count_up           = 0,
        !.count_down         = 0,
        !.count_left         = 0,
        !.count_right        = 0]

\* variant: crossed_ids is not cleared
reset_keeps_crossed(self) ==
    [self EXCEPT
        !.previous_positions = << >>,
        !.crossing_events    = << >>,
        !.count_up           = 0,
        !.count_down         = 0,
        !.count_left         = 0,
        !.count_right        = 0]

\* LineCounter.reset()
reset(self) ==
    [self EXCEPT
        !.previous_positions = << >>,
        !.crossed_ids        = {},
        !.crossing_events    = << >>,
        !.count_up           = 0,
        !.count_down         = 0,
        !.count_left         = 0,
        !.count_right        = 0]

----------------------------------------------------------------------------
(* The tracker's output for one frame: one TrackedObject per confirmed     *)
(* track, so the track ids of a frame are pairwise distinct.               *)

TrackedObject(track_id, class_name, centroid) ==
    [track_id |-> track_id, class_name |-> class_name, centroid |-> centroid]

TrackedObjects ==
    { TrackedObject(i, ClassOf[i], p) : i \in TrackIds, p \in Points }

Frames ==
    { f \in UNION { [1..n -> TrackedObjects] : n \in 0..Cardinality(TrackIds) } :
        \A j, k \in DOMAIN f : j # k => f[j].track_id # f[k].track_id }

\* the identities of a frame whose step intersects the line: the test
\* update() makes for every object that has a previous position
Intersecting(self, tracked_objects) ==
    { tracked_objects[k].track_id : k \in
        { k \in DOMAIN tracked_objects :
            /\ tracked_objects[k].track_id \in DOMAIN self.previous_positions
            /\ line_intersection(
                   self.previous_positions[tracked_objects[k].track_id],
                   tracked_objects[k].centroid,
                   self.line_start, self.line_end) } }

\* no pure-function call is under way
NoCall ==
    [fn |-> "none", direction_type |-> "vertical", p1 |-> <<0, 0>>,
     p2 |-> <<0, 0>>, line_start |-> <<0, 0>>, line_end |-> <<0, 0>>,
     done |-> FALSE, intersects |-> FALSE, direction |-> "", events |-> 0]

----------------------------------------------------------------------------
(* src/src/utils.py, src/src/tracker.py: the tracker *)

\* x / 2 on floats, for the even x the model divides
Half(x) == x \div 2

calculate_centroid(bbox) ==
    <<Half(bbox[1] + bbox[3]), Half(bbox[2] + bbox[4])>>

\* the trajectory buffer keeps the last 30 points
TrajectoryLimit == 30

\* class_id_map.get(class_name, 0)
ClassId(class_name) ==
    CASE class_name = "car" -> 2
      [] class_name = "motorcycle" -> 3
      [] class_name = "bus" -> 5
      [] class_name = "truck" -> 7
      [] class_name = "person" -> 0
      [] OTHER -> 0

\* ObjectTracker.__init__
ObjectTrackerInit == [trajectories |-> << >>, all_tracked_ids |-> {}]

\* the last n entries of a list (list[-n:])
Last(list, n) ==
    IF Len(list) <= n THEN list ELSE SubSeq(list, Len(list) - n + 1, Len(list))

\* variant: the trim keeps the first 30 points ([:30])
StoreTrajectory_keep_first(self, track_id, centroid) ==
    LET before == IF track_id \in DOMAIN self.trajectories
                  THEN self.trajectories[track_id] ELSE << >>
        grown  == Append(before, centroid)
        kept   == IF Len(grown) > TrajectoryLimit
                  THEN SubSeq(grown, 1, TrajectoryLimit) ELSE grown
    IN  [self EXCEPT !.trajectories =
            [i \in DOMAIN @ \cup {track_id} |->
                IF i = track_id THEN kept ELSE @[i]]]

\* self.trajectories[track_id].append(centroid), trimmed to the limit; the
\* defaultdict makes the entry on its first use
StoreTrajectory(self, track_id, centroid) ==
    LET before == IF track_id \in DOMAIN self.trajectories
                  THEN self.trajectories[track_id] ELSE << >>
        grown  == Append(before, centroid)
        kept   == IF Len(grown) > TrajectoryLimit
                  THEN Last(grown, TrajectoryLimit) ELSE grown
    IN  [self EXCEPT !.trajectories =
            [i \in DOMAIN @ \cup {track_id} |->
                IF i = track_id THEN kept ELSE @[i]]]

\* variant: the y of the centroid is taken from top and right
TrackedObjectOf_index_slip(track) ==
    LET ltrb == track.ltrb IN
    [track_id   |-> track.track_id,
     bbox       |-> <<ltrb[1], ltrb[2], ltrb[3], ltrb[4]>>,
     confidence |-> track.det_conf,
     class_id   |-> ClassId(track.det_class),
     class_name |-> track.det_class,
     centroid   |-> <<Half(ltrb[1] + ltrb[3]), Half(ltrb[2] + ltrb[3])>>]

\* the TrackedObject built for a confirmed track
TrackedObjectOf(track) ==
    LET ltrb == track.ltrb IN
    [track_id   |-> track.track_id,
     bbox       |-> <<ltrb[1], ltrb[2], ltrb[3], ltrb[4]>>,
     confidence |-> track.det_conf,
     class_id   |-> ClassId(track.det_class),
     class_name |-> track.det_class,
     centroid   |-> <<Half(ltrb[1] + ltrb[3]), Half(ltrb[2] + ltrb[4])>>]

\* variant: a track that is not confirmed is returned as well, its id not
\* recorded
TrackOne_returns_tentative(state, track) ==
    LET obj == TrackedObjectOf(track) IN
    IF ~track.confirmed
    THEN [state EXCEPT !.tracked_objects = Append(@, obj)]
    ELSE [self |-> StoreTrajectory(
                       [state.self EXCEPT
                           !.all_tracked_ids = @ \cup {track.track_id}],
                       track.track_id, obj.centroid),
          tracked_objects |-> Append(state.tracked_objects, obj)]

\* variant: the id is recorded before the is_confirmed() test
TrackOne_before_confirmed(state, track) ==
    IF ~track.confirmed
    THEN [state EXCEPT !.self.all_tracked_ids = @ \cup {track.track_id}]
    ELSE LET obj == TrackedObjectOf(track) IN
         [self |-> StoreTrajectory(
                       [state.self EXCEPT
                           !.all_tracked_ids = @ \cup {track.track_id}],
                       track.track_id, obj.centroid),
          tracked_objects |-> Append(state.tracked_objects, obj)]

\* one iteration of the loop of ObjectTracker.update(); state holds the
\* object and the list built so far
TrackOne(state, track) ==
    IF ~track.confirmed
    THEN state
    ELSE LET obj == TrackedObjectOf(track) IN
         [self |-> StoreTrajectory(
                       [state.self EXCEPT
                           !.all_tracked_ids = @ \cup {track.track_id}],
                       track.track_id, obj.centroid),
          tracked_objects |-> Append(state.tracked_objects, obj)]

\* the loop of ObjectTracker.update() over the tracks DeepSORT returns
RECURSIVE TrackAll(_, _)
TrackAll(state, tracks) ==
    IF tracks = << >>
    THEN state
    ELSE TrackAll(TrackOne(state, Head(tracks)), Tail(tracks))

\* ObjectTracker.update(detections, frame), given what update_tracks returns
ObjectTracker_update(self, tracks) ==
    TrackAll([self |-> self, tracked_objects |-> << >>], tracks)

get_trajectory(self, track_id) ==
    IF track_id \in DOMAIN self.trajectories
    THEN self.trajectories[track_id] ELSE << >>

get_total_vehicle_count(self) == Cardinality(self.all_tracked_ids)

\* a call of get_trajectory: the object after the call and the list
\* returned; dict.get makes no entry, defaultdict or not
GetTrajectoryCall(self, track_id) ==
    [self |-> self, trajectory |-> get_trajectory(self, track_id)]

\* the two-stream objects are not in use
NoStreams ==
    /\ counters = << >>
    /\ alone = << >>
    /\ called = "none"
    /\ added = 0

\* no tracker runs
IdleTracker ==
    /\ tracker = ObjectTrackerInit
    /\ returned = << >>
    /\ ever = {}
    /\ observed = << >>

\* no video is being processed
NoVideo == vp = [at |-> "idle"]

----------------------------------------------------------------------------
(* The line counter driven frame by frame *)

Configs ==
    { [line |-> [coordinates |-> c, direction |-> d]] :
        c \in LineCoordinates, d \in LineDirections }

Init ==
    /\ config \in Configs
    /\ lc = LineCounterInit(config)
    /\ op = "init"
    /\ hit = {}
    /\ discarded = 0
    /\ geom = NoCall
    /\ tick = << >>
    /\ IdleTracker
    /\ NoVideo
    /\ earlier = {}
    /\ NoStreams

Update ==
    /\ Constructed(lc)
    /\ \E tracked_objects \in Frames :
          /\ lc' = update(lc, tracked_objects)
          /\ hit' = Intersecting(lc, tracked_objects)
    /\ op' = "update"
    /\ discarded' = 0
    /\ UNCHANGED <<config, geom, tick, tracker, returned, ever,
                 counters, alone, called, added,
                 earlier, observed, vp>>

Reset ==
    /\ Constructed(lc)
    /\ lc' = reset(lc)
    /\ op' = "reset"
    /\ hit' = {}
    /\ discarded' = Len(lc.crossing_events)
    /\ UNCHANGED <<config, geom, tick, tracker, returned, ever,
                 counters, alone, called, added,
                 earlier, observed, vp>>

Next ==
    \/ Update
    \/ Reset

Spec == Init /\ [][Next]_vars

----------------------------------------------------------------------------
(* Properties *)

\* the positions in crossing_events of the events of identity i
EventsOf(self, i) ==
    { k \in DOMAIN self.crossing_events : self.crossing_events[k].track_id = i }

\* the number of events that carry direction d
EventsGoing(self, d) ==
    Cardinality({ k \in DOMAIN self.crossing_events :
                    self.crossing_events[k].direction = d })

\* twice the signed area of the triangle A, B, X: positive when X lies on
\* the counter-clockwise side of the line from A to B, zero when on it
Side(X, A, B) ==
    (B[1] - A[1]) * (X[2] - A[2]) - (B[2] - A[2]) * (X[1] - A[1])

\* C1 (dedup): no two events carry the same track_id; an identity whose step
\* has just intersected the line, for the first or for a later time, has
\* exactly one event and is in crossed_ids; every direction counter equals
\* the number of events of that direction, so each identity with an event
\* added exactly 1 to exactly one counter.
C1_Dedup ==
    Constructed(lc) =>
        /\ \A i \in TrackIds : Cardinality(EventsOf(lc, i)) <= 1
        /\ \A i \in hit :
              /\ Cardinality(EventsOf(lc, i)) = 1
              /\ i \in lc.crossed_ids
        /\ lc.count_up = EventsGoing(lc, "up")
        /\ lc.count_down = EventsGoing(lc, "down")
        /\ lc.count_left = EventsGoing(lc, "left")
        /\ lc.count_right = EventsGoing(lc, "right")
        /\ get_total_count(lc) =
              Cardinality({ i \in TrackIds : EventsOf(lc, i) # {} })

\* C1 witness: an identity whose step has just intersected the line while
\* its only event was recorded at another centroid, that is by an earlier
\* intersecting step (N >= 2).
C1_Witness ==
    /\ Constructed(lc)
    /\ op = "update"
    /\ \E i \in hit :
          /\ Cardinality(EventsOf(lc, i)) = 1
          /\ \A k \in EventsOf(lc, i) :
                lc.crossing_events[k].centroid # lc.previous_positions[i]

\* the identities update() has just seen for the first time
FirstSeen == DOMAIN lc'.previous_positions \ DOMAIN lc.previous_positions

\* no identity known before the update was stored at a new position
NoKnownMoved ==
    \A i \in DOMAIN lc.previous_positions :
        lc'.previous_positions[i] = lc.previous_positions[i]

SameCountsAndEvents(a, b) ==
    /\ a.crossing_events = b.crossing_events
    /\ a.crossed_ids = b.crossed_ids
    /\ a.count_up = b.count_up
    /\ a.count_down = b.count_down
    /\ a.count_left = b.count_left
    /\ a.count_right = b.count_right

\* C2 (first-sighting no-op): an update() that sees an identity for the
\* first time stores its centroid, records no event for it and does not put
\* it in crossed_ids, wherever the centroid lies; an update() made only of
\* first sightings (and unmoved identities) changes no counter, no event and
\* not crossed_ids.
C2_FirstSightingNoop ==
    [][ (Constructed(lc) /\ op' = "update") =>
            /\ \A i \in FirstSeen :
                  /\ i \notin lc'.crossed_ids
                  /\ EventsOf(lc', i) = {}
                  /\ lc'.previous_positions[i] \in Points
            /\ NoKnownMoved => SameCountsAndEvents(lc', lc) ]_vars

\* C2 witness: after an update an identity is stored on the far side of the
\* line, and another exactly on the line, with no event and no count.
C2_Witness ==
    /\ Constructed(lc)
    /\ op = "update"
    /\ lc.line_start # lc.line_end
    /\ DOMAIN lc.previous_positions = TrackIds
    /\ Side(lc.previous_positions[7], lc.line_start, lc.line_end) = 0
    /\ Side(lc.previous_positions[8], lc.line_start, lc.line_end) # 0
    /\ Side(lc.previous_positions[8], lc.line_start, lc.line_end)
          * Side(<<0, 0>>, lc.line_start, lc.line_end) < 0
    /\ lc.crossing_events = << >>
    /\ lc.crossed_ids = {}
    /\ get_total_count(lc) = 0

\* C3 (monotonic counters): an update() never lowers count_up, count_down,
\* count_left, count_right or get_total_count(), and the counters are never
\* negative.
C3_Monotonic ==
    [][ (Constructed(lc) /\ op' = "update") =>
            /\ lc.count_up >= 0 /\ lc'.count_up >= lc.count_up
            /\ lc.count_down >= 0 /\ lc'.count_down >= lc.count_down
            /\ lc.count_left >= 0 /\ lc'.count_left >= lc.count_left
            /\ lc.count_right >= 0 /\ lc'.count_right >= lc.count_right
            /\ get_total_count(lc') >= get_total_count(lc) ]_vars

\* C3 witness: updates have raised the total to 2.
C3_Witness ==
    /\ Constructed(lc)
    /\ op = "update"
    /\ get_total_count(lc) = 2

Permutations(n) ==
    { q \in [1..n -> 1..n] : \A a, b \in 1..n : a # b => q[a] # q[b] }

Permuted(f, q) == [k \in DOMAIN f |-> f[q[k]]]

EventSet(self) == { self.crossing_events[k] : k \in DOMAIN self.crossing_events }

SameOutcome(a, b) ==
    /\ a.previous_positions = b.previous_positions
    /\ a.crossed_ids = b.crossed_ids
    /\ get_statistics(a) = get_statistics(b)
    /\ Len(a.crossing_events) = Len(b.crossing_events)
    /\ EventSet(a) = EventSet(b)

\* C4 (order independence): from every reachable LineCounter state, update()
\* with a frame and update() with any permutation of that frame give the same
\* counters, previous_positions, crossed_ids and set of events.
C4_OrderIndependent ==
    Constructed(lc) =>
        \A f \in Frames :
            Len(f) > 1 =>
                LET listed == update(lc, f) IN
                \A q \in Permutations(Len(f)) :
                    Permuted(f, q) # f =>
                        SameOutcome(listed, update(lc, Permuted(f, q)))

\* C4 witness: a state reached by update() from which a frame makes both
\* identities cross, so that the two orders write the log in different order.
C4_Witness ==
    /\ Constructed(lc)
    /\ op = "update"
    /\ \E f \in Frames :
          /\ Len(update(lc, f).crossing_events) = Len(lc.crossing_events) + 2
          /\ \E q \in Permutations(Len(f)) :
                update(lc, f).crossing_events
                    # update(lc, Permuted(f, q)).crossing_events

ZeroStatistics == [total |-> 0, up |-> 0, down |-> 0, left |-> 0, right |-> 0]

\* C5 (reset): reset() leaves previous_positions, crossed_ids and
\* crossing_events empty and the four counters at 0, get_statistics() returns
\* all zeros, and the object is again as __init__ left it, so nothing
\* observed before the reset can influence a later update().
C5_Reset ==
    [][ (Constructed(lc) /\ op' = "reset") =>
            /\ DOMAIN lc'.previous_positions = {}
            /\ lc'.crossed_ids = {}
            /\ lc'.crossing_events = << >>
            /\ lc'.count_up = 0 /\ lc'.count_down = 0
            /\ lc'.count_left = 0 /\ lc'.count_right = 0
            /\ get_statistics(lc') = ZeroStatistics
            /\ lc' = LineCounterInit(config) ]_vars

\* C5 witness: a reset() has just cleared a log that held events.
C5_Witness ==
    /\ Constructed(lc)
    /\ op = "reset"
    /\ discarded > 0
    /\ get_statistics(lc) = ZeroStatistics

ZeroLengthLine(cfg) ==
    /\ Len(cfg.line.coordinates) = 4
    /\ cfg.line.coordinates[1] = cfg.line.coordinates[3]
    /\ cfg.line.coordinates[2] = cfg.line.coordinates[4]

C10_TooFewRejected ==
    Len(config.line.coordinates) < 4 =>
        /\ ~Constructed(lc)
        /\ lc = Raised("ValueError")
        /\ op = "init"

\* C10 witness: a construction from three coordinates has raised.
C10_Witness ==
    /\ Len(config.line.coordinates) = 3
    /\ ~Constructed(lc)

\* C12 (statistics consistency): get_total_count() is the sum of the four
\* counters; get_statistics() has exactly the keys total, up, down, left and
\* right, with the total and the counters as values; each counter is the
\* number of events of its direction; the total is the length of the log
\* and the number of crossed identities.
C12_StatisticsConsistent ==
    Constructed(lc) =>
        /\ get_total_count(lc) =
              lc.count_up + lc.count_down + lc.count_left + lc.count_right
        /\ DOMAIN get_statistics(lc) = {"total", "up", "down", "left", "right"}
        /\ get_statistics(lc).total = get_total_count(lc)
        /\ get_statistics(lc).up = lc.count_up
        /\ get_statistics(lc).down = lc.count_down
        /\ get_statistics(lc).left = lc.count_left
        /\ get_statistics(lc).right = lc.count_right
        /\ \A d \in {"up", "down", "left", "right"} :
              get_statistics(lc)[d] = EventsGoing(lc, d)
        /\ get_statistics(lc).total = Len(lc.crossing_events)
        /\ Len(lc.crossing_events) = Cardinality(lc.crossed_ids)

\* C12 witness: two crossings in opposite directions have been counted.
C12_Witness ==
    /\ Constructed(lc)
    /\ op = "update"
    /\ get_statistics(lc).left = 1
    /\ get_statistics(lc).right = 1
    /\ get_statistics(lc).total = 2

----------------------------------------------------------------------------
(* The line counter driven tick by tick, the list of each update() call    *)
(* recorded.  The tracker computes a centroid from the box DeepSORT        *)
(* predicts and nothing on the way checks that it is finite, so a tick may *)
(* carry centroids with a nan or an infinite coordinate.                   *)

NonFinitePoints == { <<nan, 0>>, <<neginf, 0>> }

\* the finite centroids of a tick lie on the diagonal from the origin
TickPoints == { p \in Points : p[1] = p[2] } \cup NonFinitePoints

\* the track whose centroid may be non-finite
BadTrack == 7

TickObjects ==
    { obj \in { TrackedObject(i, ClassOf[i], p) :
                  i \in TrackIds, p \in TickPoints } :
        ~finite(obj.centroid) => obj.track_id = BadTrack }

TickFrames ==
    { f \in UNION { [1..n -> TickObjects] : n \in 0..Cardinality(TrackIds) } :
        \A j, k \in DOMAIN f : j # k => f[j].track_id # f[k].track_id }

TickConfigs ==
    { [line |-> [coordinates |-> <<0, 1, 1, 0>>, direction |-> d]] :
        d \in LineDirections }

TickInit ==
    /\ config \in TickConfigs
    /\ lc = LineCounterInit(config)
    /\ op = "init"
    /\ hit = {}
    /\ discarded = 0
    /\ geom = NoCall
    /\ tick = << >>
    /\ IdleTracker
    /\ NoVideo
    /\ earlier = {}
    /\ NoStreams

TickUpdate ==
    /\ \E tracked_objects \in TickFrames :
          /\ lc' = update(lc, tracked_objects)
          /\ tick' = tracked_objects
    /\ added' = Len(lc'.crossing_events) - Len(lc.crossing_events)
    /\ op' = "update"
    /\ discarded' = 0
    /\ UNCHANGED <<config, hit, geom, tracker, returned, ever,
                   counters, alone, called,
                 earlier, observed, vp>>

TickReset ==
    /\ lc' = reset(lc)
    /\ op' = "reset"
    /\ discarded' = Len(lc.crossing_events)
    /\ tick' = << >>
    /\ added' = 0
    /\ UNCHANGED <<config, hit, geom, tracker, returned, ever,
                   counters, alone, called,
                 earlier, observed, vp>>

\* get_statistics() and get_total_count() assign nothing
TickGetStatistics ==
    /\ op' = "get_statistics"
    /\ UNCHANGED <<config, lc, hit, discarded, geom, tick, tracker, returned,
                   ever, counters, alone, called, added,
                 earlier, observed, vp>>

TickGetTotalCount ==
    /\ op' = "get_total_count"
    /\ UNCHANGED <<config, lc, hit, discarded, geom, tick, tracker, returned,
                   ever, counters, alone, called, added,
                 earlier, observed, vp>>

TickNext ==
    \/ TickUpdate
    \/ TickReset
    \/ TickGetStatistics
    \/ TickGetTotalCount

TickSpec == TickInit /\ [][TickNext]_vars

----------------------------------------------------------------------------
(* Properties of a tick *)

FiniteCentroid(obj) == finite(obj.centroid)

HasNan(p) == p[1] = nan \/ p[2] = nan

\* the identities of a list
IdsOf(tracked_objects) ==
    { tracked_objects[k].track_id : k \in DOMAIN tracked_objects }

\* the identities of a list whose centroid is not finite
NonFiniteIds(tracked_objects) ==
    { tracked_objects[k].track_id : k \in
        { k \in DOMAIN tracked_objects : ~finite(tracked_objects[k].centroid) } }

\* the events of identity i, in log order
EventsFor(self, i) ==
    LET OfI(e) == e.track_id = i IN SelectSeq(self.crossing_events, OfI)

\* what the object holds about identity i
StateOf(self, i) ==
    [known   |-> i \in DOMAIN self.previous_positions,
     at      |-> IF i \in DOMAIN self.previous_positions
                 THEN self.previous_positions[i] ELSE <<0, 0>>,
     crossed |-> i \in self.crossed_ids,
     events  |-> EventsFor(self, i)]

PositionOf(tracked_objects, i) ==
    CHOOSE k \in DOMAIN tracked_objects : tracked_objects[k].track_id = i

\* the positions of the log that the step has just added
Added == (Len(lc.crossing_events) + 1)..Len(lc'.crossing_events)

\* C13 (append-only log): an update() leaves the previous content of
\* crossing_events as a prefix of the new content; the events it adds are
\* events of identities of its list, each with the centroid observed, and
\* they stand in the order of their positions in the list.
C13_AppendOnly ==
    [][ op' = "update" =>
            /\ Len(lc'.crossing_events) >= Len(lc.crossing_events)
            /\ SubSeq(lc'.crossing_events, 1, Len(lc.crossing_events))
                  = lc.crossing_events
            /\ \A a \in Added :
                  /\ lc'.crossing_events[a].track_id \in IdsOf(tick')
                  /\ lc'.crossing_events[a].centroid =
                        tick'[PositionOf(tick',
                                  lc'.crossing_events[a].track_id)].centroid
            /\ \A a, b \in Added :
                  a < b =>
                      PositionOf(tick', lc'.crossing_events[a].track_id)
                        < PositionOf(tick', lc'.crossing_events[b].track_id) ]_vars

\* C13 witness: the log holds an event of an earlier tick, followed by the
\* event of a crossing detected in the last tick.
C13_Witness ==
    /\ op = "update"
    /\ Len(lc.crossing_events) = 2
    /\ added = 1
    /\ lc.crossing_events[1].centroid
          # lc.previous_positions[lc.crossing_events[1].track_id]
    /\ lc.crossing_events[2].track_id \in IdsOf(tick)
    /\ lc.crossing_events[2].centroid
          = lc.previous_positions[lc.crossing_events[2].track_id]

\* C17 (line immutability): line_start, line_end and direction_type are
\* what __init__ read from the configuration, and no update(),
\* get_statistics(), get_total_count() or reset() changes them.
C17_LineImmutable ==
    [][ /\ lc'.line_start = lc.line_start
        /\ lc'.line_end = lc.line_end
        /\ lc'.direction_type = lc.direction_type
        /\ lc'.line_start
              = <<config.line.coordinates[1], config.line.coordinates[2]>>
        /\ lc'.line_end
              = <<config.line.coordinates[3], config.line.coordinates[4]>>
        /\ lc'.direction_type = config.line.direction ]_vars

\* C17 witness: a reset() has cleared a log that held events, and the line
\* is still the configured one.
C17_Witness ==
    /\ op = "reset"
    /\ discarded > 0
    /\ lc.line_start # lc.line_end
    /\ lc.line_start
          = <<config.line.coordinates[1], config.line.coordinates[2]>>
    /\ lc.line_end
          = <<config.line.coordinates[3], config.line.coordinates[4]>>
    /\ lc.direction_type = config.line.direction

\* the counter of a direction
CountOf(self, direction) ==
    CASE direction = "up" -> self.count_up
      [] direction = "down" -> self.count_down
      [] direction = "left" -> self.count_left
      [] direction = "right" -> self.count_right

\* the positions of a list whose object makes a first crossing: it has a
\* stored previous centroid, its step from there intersects the line, and
\* its identity is not in crossed_ids
FirstCrossings(self, tracked_objects) ==
    { k \in DOMAIN tracked_objects :
        LET i == tracked_objects[k].track_id IN
        /\ i \in DOMAIN self.previous_positions
        /\ line_intersection(self.previous_positions[i],
                             tracked_objects[k].centroid,
                             self.line_start, self.line_end)
        /\ i \notin self.crossed_ids }

\* the direction of the step object k of a list makes
StepDirection(self, tracked_objects, k) ==
    _determine_direction(self,
        self.previous_positions[tracked_objects[k].track_id],
        tracked_objects[k].centroid)

\* C18 (immediate response): an update() that processes a first crossing of
\* identity i has, when it returns, appended a CrossingEvent for i with the
\* direction of the step and the current centroid, and put i in crossed_ids;
\* every direction counter has grown by 1 for each first crossing of the
\* list in that direction, and by nothing else.
C18_ImmediateResponse ==
    [][ op' = "update" =>
            LET first == FirstCrossings(lc, tick') IN
            IF first = {} THEN SameCountsAndEvents(lc', lc) ELSE
            /\ Len(lc'.crossing_events) - Len(lc.crossing_events)
                  = Cardinality(first)
            /\ \A k \in first :
                  /\ tick'[k].track_id \in lc'.crossed_ids
                  /\ \E a \in Added :
                        lc'.crossing_events[a] =
                            CrossingEvent(tick'[k].track_id,
                                          StepDirection(lc, tick', k),
                                          tick'[k].class_name,
                                          tick'[k].centroid)
            /\ \A d \in {"up", "down", "left", "right"} :
                  CountOf(lc', d) - CountOf(lc, d) =
                      Cardinality({ k \in first :
                                      StepDirection(lc, tick', k) = d }) ]_vars

\* C18 witness: one update() has counted the first crossings of both
\* identities, both going down.
C18_Witness ==
    /\ op = "update"
    /\ added = 2
    /\ lc.count_down = 2
    /\ lc.crossed_ids = TrackIds

\* update() called with the one object of identity i at centroid p
Observe(self, i, p) == update(self, <<TrackedObject(i, ClassOf[i], p)>>)

\* C19 (previous position is the most recent): after an update(), every
\* identity of its list is stored at the centroid the list gave it; the
\* next observation of the identity, wherever it is, is recorded as a
\* crossing exactly when the segment from that centroid intersects the line
\* and the identity has not crossed.
C19_LatestPosition ==
    op = "update" =>
        \A k \in DOMAIN tick :
            LET i == tick[k].track_id IN
            /\ i \in DOMAIN lc.previous_positions
            /\ lc.previous_positions[i] = tick[k].centroid
            /\ \A p \in TickPoints :
                  (Len(Observe(lc, i, p).crossing_events)
                      = Len(lc.crossing_events) + 1)
                  <=> (/\ line_intersection(tick[k].centroid, p,
                                            lc.line_start, lc.line_end)
                       /\ i \notin lc.crossed_ids)

\* C19 witness: an identity that crossed earlier was listed by the last
\* update(), which recorded nothing, and is stored at the centroid of the
\* list, across the line from the centroid of its event.
C19_Witness ==
    /\ op = "update"
    /\ added = 0
    /\ \E k \in DOMAIN tick :
          LET i == tick[k].track_id IN
          /\ i \in lc.crossed_ids
          /\ lc.previous_positions[i] = tick[k].centroid
          /\ finite(tick[k].centroid)
          /\ \E a \in EventsOf(lc, i) :
                Side(lc.crossing_events[a].centroid, lc.line_start, lc.line_end)
                  * Side(tick[k].centroid, lc.line_start, lc.line_end) < 0

\* C20 (absent identities are untouched): an update() whose list does not
\* hold identity i leaves previous_positions[i], i's membership in
\* crossed_ids and i's events as they were; the next observation of i is
\* still tested from the centroid stored before, so a crossing made while i
\* was not listed is recorded when i is listed again, unless i had crossed.
C20_AbsentUntouched ==
    [][ op' = "update" =>
            \A i \in TrackIds \ IdsOf(tick') :
                /\ StateOf(lc', i) = StateOf(lc, i)
                /\ i \in DOMAIN lc.previous_positions =>
                      \A p \in TickPoints :
                          (Len(Observe(lc', i, p).crossing_events)
                              = Len(lc'.crossing_events) + 1)
                          <=> (/\ line_intersection(lc.previous_positions[i], p,
                                                    lc.line_start, lc.line_end)
                               /\ i \notin lc.crossed_ids) ]_vars

\* C20 witness: the last update() listed one identity only and recorded its
\* crossing; the other identity, known and not crossed, keeps its position.
C20_Witness ==
    /\ op = "update"
    /\ Len(tick) = 1
    /\ added = 1
    /\ DOMAIN lc.previous_positions = TrackIds
    /\ \E i \in TrackIds \ IdsOf(tick) :
          /\ i \notin lc.crossed_ids
          /\ finite(lc.previous_positions[i])

\* C22 (CrossingEvent content): every event an update() appends is the
\* event of an observation obj of its list whose identity had a stored
\* centroid P: it carries obj.track_id, obj.class_name, the current centroid
\* C of obj (which differs from P) and the direction
\* _determine_direction(P, C).
C22_EventContent ==
    [][ op' = "update" =>
            \A a \in Added :
                \A e \in {lc'.crossing_events[a]} :
                    /\ e.track_id \in IdsOf(tick')
                    /\ e.track_id \in DOMAIN lc.previous_positions
                    /\ \A obj \in {tick'[PositionOf(tick', e.track_id)]} :
                       \A P \in {lc.previous_positions[e.track_id]} :
                          /\ e.track_id = obj.track_id
                          /\ e.class_name = obj.class_name
                          /\ e.centroid = obj.centroid
                          /\ e.centroid # P
                          /\ e.direction
                                = _determine_direction(lc, P, obj.centroid)
                          /\ e.direction =
                                IF lc.direction_type = "vertical"
                                THEN IF FloatLt(obj.centroid[2], P[2])
                                     THEN "up" ELSE "down"
                                ELSE IF FloatLt(obj.centroid[1], P[1])
                                     THEN "left" ELSE "right" ]_vars

\* C22 witness: the last update() appended one event, for the truck of its
\* list, at the centroid of the list and going up.
C22_Witness ==
    /\ op = "update"
    /\ added = 1
    /\ \E k \in DOMAIN tick :
          lc.crossing_events[Len(lc.crossing_events)]
              = CrossingEvent(tick[k].track_id, "up", "truck", tick[k].centroid)

----------------------------------------------------------------------------
(* The line counter followed across resets: the list of each update() call *)
(* is recorded with the identities whose step intersected the line, and    *)
(* each reset() records the crossed_ids it cleared.  config.line.direction *)
(* is a str read from the YAML file; nothing restricts it to the two       *)
(* documented values.                                                      *)

\* config.line.direction values: the two documented ones and another string
LifeDirections == LineDirections \cup {"diagonal"}

LifeConfigs ==
    { [line |-> [coordinates |-> <<0, 1, 1, 0>>, direction |-> d]] :
        d \in LifeDirections }

\* the centroids: one point on either side of the line
LifePoints == { <<0, 0>>, <<1, 1>> }

LifeObjects ==
    { TrackedObject(i, ClassOf[i], p) : i \in TrackIds, p \in LifePoints }

LifeFrames ==
    { f \in UNION { [1..n -> LifeObjects] : n \in 0..Cardinality(TrackIds) } :
        \A j, k \in DOMAIN f : j # k => f[j].track_id # f[k].track_id }

LifeInit ==
    /\ config \in LifeConfigs
    /\ lc = LineCounterInit(config)
    /\ op = "init"
    /\ hit = {}
    /\ discarded = 0
    /\ geom = NoCall
    /\ tick = << >>
    /\ IdleTracker
    /\ NoVideo
    /\ earlier = {}
    /\ NoStreams

LifeUpdate ==
    /\ \E tracked_objects \in LifeFrames :
          /\ lc' = update(lc, tracked_objects)
          /\ tick' = tracked_objects
          /\ hit' = Intersecting(lc, tracked_objects)
    /\ added' = Len(lc'.crossing_events) - Len(lc.crossing_events)
    /\ op' = "update"
    /\ discarded' = 0
    /\ UNCHANGED <<config, geom, tracker, returned, ever, counters, alone,
                   called, earlier, observed, vp>>

LifeReset ==
    /\ lc' = reset(lc)
    /\ op' = "reset"
    /\ discarded' = Len(lc.crossing_events)
    /\ earlier' = lc.crossed_ids
    /\ tick' = << >>
    /\ hit' = {}
    /\ added' = 0
    /\ UNCHANGED <<config, geom, tracker, returned, ever, counters, alone,
                   called, observed, vp>>

LifeNext ==
    \/ LifeUpdate
    \/ LifeReset

LifeSpec == LifeInit /\ [][LifeNext]_vars

----------------------------------------------------------------------------
(* Properties of the life of an identity *)

\* the first k entries of a list
Prefix(list, k) == SubSeq(list, 1, k)

\* previous_positions of b is that of a with identity i stored at p, and
\* nothing else of the object differs
OnlyPositionOverwritten(a, b, i, p) ==
    /\ SameCountsAndEvents(b, a)
    /\ DOMAIN b.previous_positions = DOMAIN a.previous_positions \cup {i}
    /\ \A j \in DOMAIN b.previous_positions :
          b.previous_positions[j] = IF j = i THEN p ELSE a.previous_positions[j]
    /\ b.line_start = a.line_start
    /\ b.line_end = a.line_end
    /\ b.direction_type = a.direction_type

\* C21 (non-counting steps change only the position): when update() comes
\* to an observation of a known identity whose step does not intersect the
\* line, or intersects it while the identity is in crossed_ids, the
\* observation leaves crossing_events, crossed_ids and the four counters as
\* they were and only overwrites previous_positions[id]; an update() whose
\* intersecting steps are all of crossed identities changes no event, no
\* counter and not crossed_ids.
C21_NonCountingStep ==
    [][ op' = "update" =>
            /\ \A k \in DOMAIN tick' :
                  \A before \in {update(lc, Prefix(tick', k - 1))} :
                  \A after \in {UpdateOne(before, tick'[k])} :
                  LET i == tick'[k].track_id
                  IN  (/\ i \in DOMAIN before.previous_positions
                       /\ \/ ~line_intersection(before.previous_positions[i],
                                                 tick'[k].centroid,
                                                 before.line_start,
                                                 before.line_end)
                          \/ i \in before.crossed_ids)
                      => /\ OnlyPositionOverwritten(before, after, i,
                                                    tick'[k].centroid)
                         /\ k = Len(tick') => after = lc'
            /\ hit' \subseteq lc.crossed_ids =>
                  /\ SameCountsAndEvents(lc', lc)
                  /\ \A i \in DOMAIN lc.previous_positions \ IdsOf(tick') :
                        /\ i \in DOMAIN lc'.previous_positions
                        /\ lc'.previous_positions[i] = lc.previous_positions[i]
                  /\ \A k \in DOMAIN tick' :
                        /\ tick'[k].track_id \in DOMAIN lc'.previous_positions
                        /\ lc'.previous_positions[tick'[k].track_id]
                              = tick'[k].centroid ]_vars

\* C21 witness: the last update() listed both identities; the step of one
\* intersected the line, the step of the other did not, nothing was
\* recorded, and the log still holds the one event of an earlier update().
C21_Witness ==
    /\ op = "update"
    /\ Len(tick) = 2
    /\ Cardinality(hit) = 1
    /\ hit \subseteq lc.crossed_ids
    /\ added = 0
    /\ Len(lc.crossing_events) = 1
    /\ DOMAIN lc.previous_positions = TrackIds

\* C23 (dedup is per reset epoch): reset() forgets every stored centroid
\* and every crossed identity.  For an identity that had crossed before the
\* last reset(): its first observation after the reset, wherever it is,
\* records no event and does not put it in crossed_ids; a later step of it
\* that intersects the line while it is not in crossed_ids records exactly
\* one event, in that update(); it never has more than one event.
C23_DedupPerEpoch ==
    [][ /\ op' = "reset" =>
              /\ DOMAIN lc'.previous_positions = {}
              /\ lc'.crossed_ids = {}
              /\ lc'.crossing_events = << >>
        /\ op' = "update" =>
              \A k \in DOMAIN tick' :
                  LET i == tick'[k].track_id IN
                  i \in earlier =>
                      /\ i \notin DOMAIN lc.previous_positions =>
                            /\ EventsOf(lc', i) = {}
                            /\ i \notin lc'.crossed_ids
                            /\ i \notin hit'
                      /\ (i \in hit' /\ i \notin lc.crossed_ids) =>
                            /\ Cardinality(EventsOf(lc', i)) = 1
                            /\ EventsOf(lc', i) \subseteq Added
                            /\ i \in lc'.crossed_ids
                      /\ Cardinality(EventsOf(lc', i)) <= 1 ]_vars

\* C23 witness: an identity that had crossed before the last reset() has
\* crossed again in the last update(), and holds one event.
C23_Witness ==
    /\ op = "update"
    /\ added >= 1
    /\ \E i \in earlier \cap hit :
          /\ i \in lc.crossed_ids
          /\ Cardinality(EventsOf(lc, i)) = 1
          /\ \A a \in EventsOf(lc, i) : a > Len(lc.crossing_events) - added

\* C24 (forward-only lifecycle): crossed_ids is always a subset of the keys
\* of previous_positions; an update() removes no key of previous_positions
\* and no member of crossed_ids; the identities it puts in crossed_ids had
\* a stored centroid before it, so none is one it sees for the first time.
C24_ForwardOnly ==
    [][ /\ lc.crossed_ids \subseteq DOMAIN lc.previous_positions
        /\ lc'.crossed_ids \subseteq DOMAIN lc'.previous_positions
        /\ op' = "update" =>
              /\ DOMAIN lc.previous_positions
                    \subseteq DOMAIN lc'.previous_positions
              /\ lc.crossed_ids \subseteq lc'.crossed_ids
              /\ (lc'.crossed_ids \ lc.crossed_ids)
                    \subseteq DOMAIN lc.previous_positions
              /\ FirstSeen \cap lc'.crossed_ids = {}
              /\ FirstSeen \subseteq IdsOf(tick') ]_vars

\* C24 witness: one identity has crossed in an earlier update() and was
\* observed again by the last one, which saw the other identity for the
\* second time, not crossed.
C24_Witness ==
    /\ op = "update"
    /\ added = 0
    /\ hit = {}
    /\ Len(tick) = 2
    /\ DOMAIN lc.previous_positions = TrackIds
    /\ Cardinality(lc.crossed_ids) = 1
    /\ Len(lc.crossing_events) = 1
    /\ \A i \in lc.crossed_ids :
          \A a \in EventsOf(lc, i) :
              lc.crossing_events[a].centroid = lc.previous_positions[i]

\* the directions of the events of the log
DirectionsOf(self) ==
    { self.crossing_events[k].direction : k \in DOMAIN self.crossing_events }

\* C26 (orientation partitions the counters): a LineCounter configured with
\* "vertical" always has count_left = count_right = 0 and only events going
\* up or down; one configured with any other string, "horizontal" or not,
\* always has count_up = count_down = 0 and only events going left or
\* right.
C26_OrientationPartition ==
    /\ lc.direction_type = config.line.direction
    /\ IF config.line.direction = "vertical"
       THEN /\ lc.count_left = 0
            /\ lc.count_right = 0
            /\ DirectionsOf(lc) \subseteq {"up", "down"}
            /\ lc.count_up + lc.count_down = Len(lc.crossing_events)
       ELSE /\ lc.count_up = 0
            /\ lc.count_down = 0
            /\ DirectionsOf(lc) \subseteq {"left", "right"}
            /\ lc.count_left + lc.count_right = Len(lc.crossing_events)

\* C26 witness: a LineCounter configured with a string that is neither
\* "vertical" nor "horizontal" has counted one crossing to the left and one
\* to the right.
C26_Witness ==
    /\ config.line.direction \notin LineDirections
    /\ op = "update"
    /\ lc.count_left = 1
    /\ lc.count_right = 1
    /\ DirectionsOf(lc) = {"left", "right"}

----------------------------------------------------------------------------
(* The pure functions applied to drawn arguments.  A call record holds the *)
(* arguments; the action that runs the call stores what the code returns.  *)
(*   line_intersection(p1, p2, line_start, line_end)        -> intersects  *)
(*   _determine_direction(prev_pos = p1, current_pos = p2)  -> direction   *)
(*   update([obj at p1]); update([obj at p2]) on a new LineCounter         *)
(*                                    -> events = len(crossing_events)     *)
(* line_intersection and update are called on any four points (neither     *)
(* reads the direction), _determine_direction with either direction on a   *)
(* counter whose line is one of GeomLines.                                 *)

\* the lines of the LineCounter whose _determine_direction is called
GeomLines == { <<0, 1, 1, 0>>, <<0, 0, 1, 1>>, <<1, 1, 1, 1>> }

\* a call whose result is still to come
GeomCall(f, d, a, b, c, e) ==
    [fn |-> f, direction_type |-> d, p1 |-> a, p2 |-> b,
     line_start |-> c, line_end |-> e,
     done |-> FALSE, intersects |-> FALSE, direction |-> "", events |-> 0]

\* the configuration whose line runs from line_start to line_end
ConfigOf(line_start, line_end, direction) ==
    [line |-> [coordinates |-> <<line_start[1], line_start[2],
                                 line_end[1], line_end[2]>>,
               direction |-> direction]]

\* the LineCounter a call record's line configures
CallCounter(call) ==
    LineCounterInit(ConfigOf(call.line_start, call.line_end, call.direction_type))

\* the configuration of the idle LineCounter while a pure function is called
GeomConfig == ConfigOf(<<0, 1>>, <<1, 0>>, "vertical")

GeomInit ==
    /\ config = GeomConfig
    /\ lc = LineCounterInit(config)
    /\ op = "init"
    /\ hit = {}
    /\ discarded = 0
    /\ tick = << >>
    /\ IdleTracker
    /\ NoVideo
    /\ earlier = {}
    /\ NoStreams
    /\ \E a \in GeomPoints, b \in GeomPoints :
          \/ \E c \in GeomPoints, e \in GeomPoints :
                \E f \in {"line_intersection", "update"} :
                    geom = GeomCall(f, "vertical", a, b, c, e)
          \/ \E l \in GeomLines, d \in LineDirections :
                geom = GeomCall("_determine_direction", d, a, b,
                                <<l[1], l[2]>>, <<l[3], l[4]>>)

CallLineIntersection ==
    /\ geom.fn = "line_intersection"
    /\ ~geom.done
    /\ geom' = [geom EXCEPT
                   !.done = TRUE,
                   !.intersects = line_intersection(geom.p1, geom.p2,
                                      geom.line_start, geom.line_end)]
    /\ UNCHANGED <<config, lc, op, hit, discarded, tick, tracker, returned, ever,
                 counters, alone, called, added,
                 earlier, observed, vp>>

CallDetermineDirection ==
    /\ geom.fn = "_determine_direction"
    /\ ~geom.done
    /\ geom' = [geom EXCEPT
                   !.done = TRUE,
                   !.direction = _determine_direction(CallCounter(geom),
                                     geom.p1, geom.p2)]
    /\ UNCHANGED <<config, lc, op, hit, discarded, tick, tracker, returned, ever,
                 counters, alone, called, added,
                 earlier, observed, vp>>

CallUpdateTwice ==
    /\ geom.fn = "update"
    /\ ~geom.done
    /\ LET first  == update(CallCounter(geom),
                            <<TrackedObject(7, ClassOf[7], geom.p1)>>)
           second == update(first, <<TrackedObject(7, ClassOf[7], geom.p2)>>)
       IN  geom' = [geom EXCEPT
                      !.done = TRUE,
                      !.events = Len(second.crossing_events)]
    /\ UNCHANGED <<config, lc, op, hit, discarded, tick, tracker, returned, ever,
                 counters, alone, called, added,
                 earlier, observed, vp>>

GeomNext ==
    \/ CallLineIntersection
    \/ CallDetermineDirection
    \/ CallUpdateTwice

GeomSpec == GeomInit /\ [][GeomNext]_vars

----------------------------------------------------------------------------
(* Properties of the pure functions *)

\* no three of the four points of a call are collinear
GeneralPosition(g) ==
    /\ Side(g.p1, g.line_start, g.line_end) # 0
    /\ Side(g.p2, g.line_start, g.line_end) # 0
    /\ Side(g.line_start, g.p1, g.p2) # 0
    /\ Side(g.line_end, g.p1, g.p2) # 0

\* the two segments of a call cross properly
ProperCrossing(g) ==
    /\ Side(g.line_start, g.p1, g.p2) * Side(g.line_end, g.p1, g.p2) < 0
    /\ Side(g.p1, g.line_start, g.line_end)
          * Side(g.p2, g.line_start, g.line_end) < 0

\* C6 (intersection primitive): for four points in general position
\* line_intersection is true iff line_start and line_end lie strictly on
\* opposite sides of line p1-p2 and p1 and p2 lie strictly on opposite sides
\* of line line_start-line_end; (0,0)->(100,100) against (0,100)-(100,0) is
\* true and (0,0)->(40,40) against the same line is false.
C6_Intersection ==
    /\ (geom.fn = "line_intersection" /\ geom.done /\ GeneralPosition(geom))
          => (geom.intersects <=> ProperCrossing(geom))
    /\ line_intersection(<<0, 0>>, <<100, 100>>, <<0, 100>>, <<100, 0>>)
    /\ ~line_intersection(<<0, 0>>, <<40, 40>>, <<0, 100>>, <<100, 0>>)

\* C6 witness: a call on points in general position has returned true.
C6_Witness ==
    /\ geom.fn = "line_intersection"
    /\ geom.done
    /\ GeneralPosition(geom)
    /\ geom.intersects

\* an endpoint of one segment lies on the supporting line of the other
Touch(g) == ~GeneralPosition(g)

\* exactly one of two orientation values is positive
Split(a, b) == (a > 0) # (b > 0)

\* the two pairs of endpoints are both split, a zero orientation counting
\* as the clockwise side
SplitBothWays(g) ==
    /\ Split(Side(g.p1, g.line_start, g.line_end),
             Side(g.p2, g.line_start, g.line_end))
    /\ Split(Side(g.line_start, g.p1, g.p2), Side(g.line_end, g.p1, g.p2))

\* C7 as stated: a step that only touches the line is no intersection, and
\* update() records no event for it.
C7_TouchNeverCrosses ==
    (geom.done /\ Touch(geom)) =>
        /\ geom.fn = "line_intersection" => ~geom.intersects
        /\ geom.fn = "update" => geom.events = 0

\* C7 as amended: on a touch a zero orientation counts as the clockwise
\* side: line_intersection is true iff exactly one of p1, p2 lies strictly
\* counter-clockwise of line_start->line_end and exactly one of line_start,
\* line_end lies strictly counter-clockwise of p1->p2; update() records an
\* event for the step exactly in that case.
C7_TouchCountsAsClockwise ==
    (geom.done /\ Touch(geom)) =>
        /\ geom.fn = "line_intersection" =>
              (geom.intersects <=> SplitBothWays(geom))
        /\ geom.fn = "update" =>
              geom.events = IF SplitBothWays(geom) THEN 1 ELSE 0

\* C7 witness: update() has recorded an event for a step that ends exactly
\* on the line.
C7_Witness ==
    /\ geom.fn = "update"
    /\ geom.done
    /\ geom.line_start # geom.line_end
    /\ Side(geom.p2, geom.line_start, geom.line_end) = 0
    /\ geom.events = 1

\* C8 (classifier): with "vertical" the result is "up" iff cur.y < prev.y and
\* "down" otherwise; with "horizontal" it is "left" iff cur.x < prev.x and
\* "right" otherwise; the line endpoints do not matter: the result is the
\* same for every line the counter may have.
C8_Classifier ==
    /\ (geom.fn = "_determine_direction" /\ geom.done) =>
          /\ geom.direction_type = "vertical" =>
                /\ geom.direction = "up" <=> geom.p2[2] < geom.p1[2]
                /\ geom.direction = "down" <=> geom.p2[2] >= geom.p1[2]
          /\ geom.direction_type = "horizontal" =>
                /\ geom.direction = "left" <=> geom.p2[1] < geom.p1[1]
                /\ geom.direction = "right" <=> geom.p2[1] >= geom.p1[1]
          /\ \A l \in GeomLines :
                _determine_direction(
                    LineCounterInit(ConfigOf(<<l[1], l[2]>>, <<l[3], l[4]>>,
                                             geom.direction_type)),
                    geom.p1, geom.p2) = geom.direction
    /\ _determine_direction(LineCounterInit(GeomConfig),
                            <<5, 10>>, <<5, 4>>) = "up"
    /\ _determine_direction(LineCounterInit(GeomConfig),
                            <<5, 10>>, <<5, 10>>) = "down"
    /\ _determine_direction(
           LineCounterInit(ConfigOf(<<0, 1>>, <<1, 0>>, "horizontal")),
           <<10, 5>>, <<4, 5>>) = "left"

\* C8 witness: a "vertical" call with equal y has returned "down".
C8_Witness ==
    /\ geom.fn = "_determine_direction"
    /\ geom.done
    /\ geom.direction_type = "vertical"
    /\ geom.p1[2] = geom.p2[2]
    /\ geom.p1[1] # geom.p2[1]
    /\ geom.direction = "down"

\* C25 (a stationary step never crosses): line_intersection(p, p,
\* line_start, line_end) returns false for every point p and every line,
\* a zero-length line and a point on the line included, and for a point
\* with a nan or an infinite coordinate; an identity observed twice at the
\* same centroid gets no event from that step.
C25_StationaryNeverCrosses ==
    /\ (geom.done /\ geom.fn = "line_intersection" /\ geom.p1 = geom.p2)
          => ~geom.intersects
    /\ (geom.done /\ geom.fn = "update" /\ geom.p1 = geom.p2)
          => geom.events = 0
    /\ geom.fn \in {"line_intersection", "update"} =>
          \A p \in NonFinitePoints \cup {geom.p1, geom.p2} :
              ~line_intersection(p, p, geom.line_start, geom.line_end)

\* C25 witness: an identity was observed twice at the same centroid, a point
\* of a proper line, and update() recorded no event.
C25_Witness ==
    /\ geom.fn = "update"
    /\ geom.done
    /\ geom.p1 = geom.p2
    /\ geom.line_start # geom.line_end
    /\ Side(geom.p1, geom.line_start, geom.line_end) = 0
    /\ geom.events = 0

----------------------------------------------------------------------------
(* The tracker driven frame by frame.  DeepSORT is outside the repository: *)
(* what update_tracks returns is an input, any list of tracks with         *)
(* pairwise distinct ids, each confirmed or not, each with a box.          *)

\* track.to_ltrb() values; their midpoints have integer coordinates
Boxes == { <<0, 0, 2, 4>>, <<2, 0, 6, 2>> }

Track(track_id, confirmed, ltrb) ==
    [track_id |-> track_id, confirmed |-> confirmed, ltrb |-> ltrb,
     det_class |-> ClassOf[track_id], det_conf |-> 1]

Tracks ==
    { Track(i, c, b) : i \in TrackIds, c \in BOOLEAN, b \in Boxes }

TrackLists ==
    { l \in UNION { [1..n -> Tracks] : n \in 0..Cardinality(TrackIds) } :
        \A j, k \in DOMAIN l : j # k => l[j].track_id # l[k].track_id }

TrackerInit ==
    /\ config = GeomConfig
    /\ lc = LineCounterInit(config)
    /\ op = "init"
    /\ hit = {}
    /\ discarded = 0
    /\ geom = NoCall
    /\ tick = << >>
    /\ IdleTracker
    /\ NoVideo
    /\ earlier = {}
    /\ NoStreams

TrackerUpdate ==
    /\ \E tracks \in TrackLists :
          /\ \A k \in DOMAIN tracks :
                Len(get_trajectory(tracker, tracks[k].track_id)) < MaxSeen
          /\ LET result == ObjectTracker_update(tracker, tracks) IN
                /\ tracker' = result.self
                /\ returned' = result.tracked_objects
                /\ ever' = ever \cup IdsOf(result.tracked_objects)
    /\ op' = "tracker_update"
    /\ UNCHANGED <<config, lc, hit, discarded, geom, tick,
                 counters, alone, called, added,
                 earlier, observed, vp>>

\* the boxes calculate_centroid is called on: the corners have even
\* coordinates, in any order, and the box of the system test
CentroidBoxes ==
    { <<x1, y1, x2, y2>> : x1 \in {0, 2}, y1 \in {0, 2},
                           x2 \in {0, 2}, y2 \in {0, 2} }
        \cup { <<0, 0, 100, 100>> }

\* calculate_centroid(bbox) called on its own
CallCalculateCentroid ==
    /\ \E bbox \in CentroidBoxes :
          geom' = [fn |-> "calculate_centroid", bbox |-> bbox, done |-> TRUE,
                   centroid |-> calculate_centroid(bbox)]
    /\ UNCHANGED <<config, lc, op, hit, discarded, tick,
                   tracker, returned, ever, counters, alone, called, added,
                 earlier, observed, vp>>

TrackerNext ==
    \/ TrackerUpdate
    \/ CallCalculateCentroid

TrackerSpec == TrackerInit /\ [][TrackerNext]_vars

----------------------------------------------------------------------------
(* Properties of the tracker *)

\* C14 (additive identity counter): get_total_vehicle_count() is the number
\* of distinct track ids update() has ever returned; an update() never
\* lowers it, raises it by the number of ids it returns for the first time
\* (a repeated sighting adds nothing), and keeps counting the ids it no
\* longer returns.
C14_AdditiveCount ==
    [][ op' = "tracker_update" =>
            /\ get_total_vehicle_count(tracker) = Cardinality(ever)
            /\ get_total_vehicle_count(tracker') = Cardinality(ever')
            /\ get_total_vehicle_count(tracker')
                  >= get_total_vehicle_count(tracker)
            /\ get_total_vehicle_count(tracker')
                  - get_total_vehicle_count(tracker)
                  = Cardinality(IdsOf(returned') \ ever)
            /\ ever \subseteq tracker'.all_tracked_ids ]_vars

\* C14 witness: both ids have been returned, the last update() returned
\* only one of them, for the second time, and the count is 2.
C14_Witness ==
    /\ op = "tracker_update"
    /\ ever = TrackIds
    /\ Len(returned) = 1
    /\ Len(get_trajectory(tracker, returned[1].track_id)) = 2
    /\ get_total_vehicle_count(tracker) = 2

\* C16 (centroid is the box midpoint): calculate_centroid returns the point
\* whose doubled coordinates are x1 + x2 and y1 + y2, (50, 50) for
\* [0, 0, 100, 100]; every object ObjectTracker.update() returns has the
\* centroid calculate_centroid gives for its own bbox.
C16_CentroidIsMidpoint ==
    /\ geom.fn = "calculate_centroid" =>
          /\ 2 * geom.centroid[1] = geom.bbox[1] + geom.bbox[3]
          /\ 2 * geom.centroid[2] = geom.bbox[2] + geom.bbox[4]
          /\ geom.bbox = <<0, 0, 100, 100>> => geom.centroid = <<50, 50>>
    /\ \A k \in DOMAIN returned :
          /\ returned[k].centroid = calculate_centroid(returned[k].bbox)
          /\ 2 * returned[k].centroid[1]
                = returned[k].bbox[1] + returned[k].bbox[3]
          /\ 2 * returned[k].centroid[2]
                = returned[k].bbox[2] + returned[k].bbox[4]

\* C16 witness: update() has returned two objects with different boxes, and
\* calculate_centroid has returned (50, 50) for the box of the system test.
C16_Witness ==
    /\ op = "tracker_update"
    /\ Len(returned) = 2
    /\ returned[1].bbox # returned[2].bbox
    /\ returned[1].centroid # returned[2].centroid
    /\ geom.fn = "calculate_centroid"
    /\ geom.bbox = <<0, 0, 100, 100>>
    /\ geom.centroid = <<50, 50>>

----------------------------------------------------------------------------
(* Two LineCounter objects, one per video stream, called in any            *)
(* interleaving.  Every attribute update() and reset() touch is an         *)
(* attribute of self, made anew by __init__ for each object.               *)

Streams == {"A", "B"}

\* stream A counts up and down, stream B left and right, on the same line
StreamConfig ==
    [k \in Streams |->
        ConfigOf(<<0, 1>>, <<1, 0>>,
                 IF k = "A" THEN "vertical" ELSE "horizontal")]

\* the centroids of both streams: one point on either side of the line
StreamPoints == { <<0, 0>>, <<1, 1>> }

StreamObjects ==
    { TrackedObject(i, ClassOf[i], p) : i \in TrackIds, p \in StreamPoints }

StreamFrames ==
    { f \in UNION { [1..n -> StreamObjects] : n \in 0..Cardinality(TrackIds) } :
        \A j, k \in DOMAIN f : j # k => f[j].track_id # f[k].track_id }

\* variant: crossed_ids is a class attribute, one set for all the objects
MethodCall_class_level(objects, k, after) ==
    [j \in DOMAIN objects |->
        IF j = k THEN after
        ELSE [objects[j] EXCEPT !.crossed_ids = after.crossed_ids]]

\* a method called on object k leaves it as the method leaves self, and
\* writes nothing else
MethodCall(objects, k, after) == [objects EXCEPT ![k] = after]

StreamsInit ==
    /\ config = GeomConfig
    /\ lc = LineCounterInit(config)
    /\ op = "init"
    /\ hit = {}
    /\ discarded = 0
    /\ geom = NoCall
    /\ tick = << >>
    /\ IdleTracker
    /\ NoVideo
    /\ earlier = {}
    /\ counters = [k \in Streams |-> LineCounterInit(StreamConfig[k])]
    /\ alone = [k \in Streams |-> LineCounterInit(StreamConfig[k])]
    /\ called = "none"
    /\ added = 0

StreamUpdate ==
    /\ \E k \in Streams, tracked_objects \in StreamFrames :
          /\ counters' =
                MethodCall(counters, k, update(counters[k], tracked_objects))
          /\ alone' = [alone EXCEPT ![k] = update(@, tracked_objects)]
          /\ called' = k
    /\ op' = "update"
    /\ UNCHANGED <<config, lc, hit, discarded, geom, tick,
                   tracker, returned, ever, added,
                 earlier, observed, vp>>

StreamReset ==
    /\ \E k \in Streams :
          /\ counters' = MethodCall(counters, k, reset(counters[k]))
          /\ alone' = [alone EXCEPT ![k] = reset(@)]
          /\ called' = k
    /\ op' = "reset"
    /\ UNCHANGED <<config, lc, hit, discarded, geom, tick,
                   tracker, returned, ever, added,
                 earlier, observed, vp>>

StreamsNext ==
    \/ StreamUpdate
    \/ StreamReset

StreamsSpec == StreamsInit /\ [][StreamsNext]_vars

----------------------------------------------------------------------------
(* A track followed for longer than the trajectory buffer holds.  The box  *)
(* of a track moves two pixels to the right with each sighting, so that    *)
(* every centroid of a track tells which sighting it comes from.           *)

\* track.to_ltrb() at the n-th sighting of a track
BoxAt(n) == <<2 * n, 0, 2 * n + 2, 2>>

\* the number of objects returned for a track id so far
Sightings(i) == IF i \in DOMAIN observed THEN Len(observed[i]) ELSE 0

\* what update_tracks may return: any of the tracks, confirmed or not, each
\* at its next box
MovingTrackLists ==
    { l \in UNION { [1..n -> { Track(i, c, BoxAt(Sightings(i) + 1)) :
                                 i \in TrackIds, c \in BOOLEAN }] :
                      n \in 0..Cardinality(TrackIds) } :
        \A j, k \in DOMAIN l : j # k => l[j].track_id # l[k].track_id }

\* a track id update_tracks never hands out
NeverSeen == 9

\* the centroids of the objects of a list that carry track id i
CentroidsOf(tracked_objects, i) ==
    LET OfI(obj) == obj.track_id = i
        objs == SelectSeq(tracked_objects, OfI)
    IN  [k \in DOMAIN objs |-> objs[k].centroid]

TrajectoryInit ==
    /\ config = GeomConfig
    /\ lc = LineCounterInit(config)
    /\ op = "init"
    /\ hit = {}
    /\ discarded = 0
    /\ geom = NoCall
    /\ tick = << >>
    /\ IdleTracker
    /\ NoVideo
    /\ earlier = {}
    /\ NoStreams

TrajectoryUpdate ==
    /\ \E tracks \in MovingTrackLists :
          /\ \A k \in DOMAIN tracks :
                Sightings(tracks[k].track_id) < MaxObserved
          /\ LET result == ObjectTracker_update(tracker, tracks) IN
                /\ tracker' = result.self
                /\ returned' = result.tracked_objects
                /\ ever' = ever \cup IdsOf(result.tracked_objects)
                /\ observed' =
                      [i \in DOMAIN observed \cup IdsOf(result.tracked_objects)
                          |-> (IF i \in DOMAIN observed
                               THEN observed[i] ELSE << >>)
                              \o CentroidsOf(result.tracked_objects, i)]
    /\ op' = "tracker_update"
    /\ geom' = NoCall
    /\ UNCHANGED <<config, lc, hit, discarded, tick, counters, alone, called,
                   added, earlier, vp>>

CallGetTrajectory ==
    /\ \E track_id \in TrackIds \cup {NeverSeen} :
          LET result == GetTrajectoryCall(tracker, track_id) IN
          /\ tracker' = result.self
          /\ geom' = [fn |-> "get_trajectory", track_id |-> track_id,
                      trajectory |-> result.trajectory]
    /\ op' = "get_trajectory"
    /\ UNCHANGED <<config, lc, hit, discarded, tick, returned, ever, observed,
                   counters, alone, called, added, earlier, vp>>

TrajectoryNext ==
    \/ TrajectoryUpdate
    \/ CallGetTrajectory

TrajectorySpec == TrajectoryInit /\ [][TrajectoryNext]_vars

----------------------------------------------------------------------------
(* Properties of the trajectory buffer *)

\* C29 (bounded trajectory buffer): the tracker keeps a trajectory for
\* exactly the track ids it has returned; after n returned objects of a
\* track id, its trajectory holds the centroids of the last min(n, 30) of
\* them, in the order returned; get_trajectory returns the stored list,
\* returns the empty list for an id never returned, and makes no entry.
C29_BoundedTrajectory ==
    /\ TrajectoryLimit = 30
    /\ DOMAIN tracker.trajectories = DOMAIN observed
    /\ NeverSeen \notin DOMAIN tracker.trajectories
    /\ \A i \in DOMAIN observed :
          \A n \in {Len(observed[i])} :
          \A m \in {IF n < 30 THEN n ELSE 30} :
              /\ i \in DOMAIN tracker.trajectories
              /\ Len(tracker.trajectories[i]) = m
              /\ \A j \in 1..m :
                    tracker.trajectories[i][j] = observed[i][n - m + j]
    /\ op = "get_trajectory" =>
          /\ geom.track_id \notin DOMAIN observed => geom.trajectory = << >>
          /\ geom.track_id \in DOMAIN observed =>
                /\ geom.track_id \in DOMAIN tracker.trajectories
                /\ geom.trajectory = tracker.trajectories[geom.track_id]

\* C29 witness: a track id has been returned 31 times and its trajectory
\* holds 30 centroids, from the second to the last; get_trajectory has just
\* returned the empty list for an id never seen.
C29_Witness ==
    /\ op = "get_trajectory"
    /\ geom.track_id = NeverSeen
    /\ geom.trajectory = << >>
    /\ \E i \in DOMAIN observed :
          /\ Len(observed[i]) = 31
          /\ Len(tracker.trajectories[i]) = 30
          /\ tracker.trajectories[i][1] = observed[i][2]
          /\ tracker.trajectories[i][30] = observed[i][31]

----------------------------------------------------------------------------
(* src/src/video_processor.py: process_video.  The capture, the detector,  *)
(* DeepSORT and the keyboard are outside the repository: whether the video *)
(* opens, whether a read succeeds, the tracks of a frame and the key       *)
(* pressed are inputs.  vp holds the locals of process_video,              *)
(* config.video.show_display and config.video.save_output, and, for each   *)
(* stage, the numbers of the frames it was given.                          *)

\* the line of the pipeline runs between the centroids of the two boxes
PipelineConfig == ConfigOf(<<2, 0>>, <<3, 3>>, "vertical")

\* cv2.waitKey(1) & 0xFF: the key 'q' or no key
Keys == {"q", "none"}

\* VideoProcessor(config), process_video not yet called
VideoProcessorInit(show_display, save_output) ==
    [at |-> "start", show_display |-> show_display,
     save_output |-> save_output, writer |-> FALSE,
     frame_count |-> 0, frames_written |-> 0,
     detected |-> << >>, tracked |-> << >>, counted |-> << >>,
     calls |-> << >>, key |-> "none", closed |-> 0]

\* what update_tracks may return for a frame: the tracks in the order of
\* their ids
PipelineTrackLists ==
    { l \in TrackLists :
        \A j, k \in DOMAIN l : j < k => l[j].track_id < l[k].track_id }

\* variant: the key 'q' ends the loop (break)
Iteration_q_breaks(state, tracks, key) ==
    LET n       == state.vp.frame_count + 1
        result  == ObjectTracker_update(state.tracker, tracks)
        shown   == state.vp.show_display
        pressed == shown /\ key = "q"
    IN  [vp |-> [state.vp EXCEPT
                    !.at             = IF pressed THEN "done" ELSE @,
                    !.frame_count    = n,
                    !.detected       = Append(@, n),
                    !.tracked        = Append(@, n),
                    !.counted        = Append(@, n),
                    !.calls          = <<"detect", "tracker.update",
                                         "line_counter.update">>,
                    !.frames_written = IF state.vp.writer THEN @ + 1 ELSE @,
                    !.show_display   = IF pressed THEN FALSE ELSE @,
                    !.key            = IF shown THEN key ELSE "none",
                    !.closed         = IF pressed THEN n ELSE @],
         tracker |-> result.self,
         lc |-> update(state.lc, result.tracked_objects),
         tracked_objects |-> result.tracked_objects]

\* the body of the loop for a frame that was read: detect, tracker.update,
\* line_counter.update, write, display
Iteration(state, tracks, key) ==
    LET n       == state.vp.frame_count + 1
        result  == ObjectTracker_update(state.tracker, tracks)
        shown   == state.vp.show_display
        pressed == shown /\ key = "q"
    IN  [vp |-> [state.vp EXCEPT
                    !.frame_count    = n,
                    !.detected       = Append(@, n),
                    !.tracked        = Append(@, n),
                    !.counted        = Append(@, n),
                    !.calls          = <<"detect", "tracker.update",
                                         "line_counter.update">>,
                    !.frames_written = IF state.vp.writer THEN @ + 1 ELSE @,
                    !.show_display   = IF pressed THEN FALSE ELSE @,
                    !.key            = IF shown THEN key ELSE "none",
                    !.closed         = IF pressed THEN n ELSE @],
         tracker |-> result.self,
         lc |-> update(state.lc, result.tracked_objects),
         tracked_objects |-> result.tracked_objects]

PipelineInit ==
    /\ config = PipelineConfig
    /\ lc = LineCounterInit(config)
    /\ op = "init"
    /\ hit = {}
    /\ discarded = 0
    /\ geom = NoCall
    /\ tick = << >>
    /\ IdleTracker
    /\ \E show_display \in BOOLEAN, save_output \in BOOLEAN :
          vp = VideoProcessorInit(show_display, save_output)
    /\ earlier = {}
    /\ NoStreams

\* process_video up to the loop: raises if the video does not open, makes
\* the writer if the output is saved
OpenVideo ==
    /\ vp.at = "start"
    /\ \E opened \in BOOLEAN :
          vp' = IF opened
                THEN [vp EXCEPT !.at = "loop", !.writer = vp.save_output]
                ELSE [vp EXCEPT !.at = "raised"]
    /\ op' = "process_video"
    /\ UNCHANGED <<config, lc, hit, discarded, geom, tick, tracker, returned,
                   ever, counters, alone, called, added, earlier, observed>>

\* cap.read() succeeds: one iteration of the loop
ProcessFrame ==
    /\ vp.at = "loop"
    /\ vp.frame_count < MaxFrames
    /\ \E tracks \in PipelineTrackLists,
          key \in IF vp.show_display THEN Keys ELSE {"none"} :
          LET after == Iteration([vp |-> vp, tracker |-> tracker, lc |-> lc],
                                 tracks, key)
          IN  /\ vp' = after.vp
              /\ tracker' = after.tracker
              /\ lc' = after.lc
              /\ returned' = after.tracked_objects
              /\ ever' = ever \cup IdsOf(after.tracked_objects)
    /\ op' = "frame"
    /\ UNCHANGED <<config, hit, discarded, geom, tick, counters, alone, called,
                   added, earlier, observed>>

\* cap.read() fails: the loop ends, the capture and the writer are released
EndOfVideo ==
    /\ vp.at = "loop"
    /\ vp' = [vp EXCEPT !.at = "done"]
    /\ op' = "read_failed"
    /\ UNCHANGED <<config, lc, hit, discarded, geom, tick, tracker, returned,
                   ever, counters, alone, called, added, earlier, observed>>

PipelineNext ==
    \/ OpenVideo
    \/ ProcessFrame
    \/ EndOfVideo

PipelineSpec == PipelineInit /\ [][PipelineNext]_vars

----------------------------------------------------------------------------
(* Properties of the pipeline *)

\* the track ids of the events of the log
EventIds(self) ==
    { self.crossing_events[k].track_id : k \in DOMAIN self.crossing_events }

\* C27 (pipeline count bound): every identity the line counter holds, in
\* previous_positions, in crossed_ids or in an event, is in the tracker's
\* all_tracked_ids, so get_total_count() is at most
\* get_total_vehicle_count().
C27_PipelineCountBound ==
    /\ DOMAIN lc.previous_positions \subseteq tracker.all_tracked_ids
    /\ lc.crossed_ids \subseteq tracker.all_tracked_ids
    /\ EventIds(lc) \subseteq tracker.all_tracked_ids
    /\ get_total_count(lc) = Cardinality(lc.crossed_ids)
    /\ get_total_count(lc) <= get_total_vehicle_count(tracker)

\* C27 witness: two vehicles have been tracked, the last frame returned one
\* of them, and one crossing has been counted.
C27_Witness ==
    /\ op = "frame"
    /\ get_total_vehicle_count(tracker) = 2
    /\ get_total_count(lc) = 1
    /\ Len(returned) = 1

\* the numbers 1, ..., n in order
UpTo(n) == [k \in 1..n |-> k]

\* C28 (every frame is counted once, in order): an iteration of the loop
\* gives the frame read to detector.detect, then tracker.update, then
\* line_counter.update, which receives the list tracker.update returned;
\* after n frames each stage has been given the frames 1..n in order; the
\* key 'q' turns the display off and leaves the loop running; the loop is
\* left only by a failed read, which processes nothing; with a writer,
\* frames_written equals frame_count after every iteration and at the end.
C28_EveryFrameOnce ==
    [][ /\ op' = "frame" =>
              /\ vp'.frame_count = vp.frame_count + 1
              /\ vp'.detected = UpTo(vp'.frame_count)
              /\ vp'.tracked = UpTo(vp'.frame_count)
              /\ vp'.counted = UpTo(vp'.frame_count)
              /\ vp'.calls
                    = <<"detect", "tracker.update", "line_counter.update">>
              /\ lc' = update(lc, returned')
              /\ vp'.at = "loop"
              /\ vp'.key = "q" =>
                    /\ vp.show_display
                    /\ ~vp'.show_display
                    /\ vp'.closed = vp'.frame_count
              /\ vp'.key # "q" => vp'.show_display = vp.show_display
              /\ vp'.writer = vp.save_output
              /\ vp'.frames_written
                    = IF vp.save_output THEN vp'.frame_count ELSE 0
        /\ (vp.at = "loop" /\ vp'.at # "loop") =>
              /\ op' = "read_failed"
              /\ vp'.at = "done"
              /\ lc' = lc
              /\ tracker' = tracker
              /\ vp'.frame_count = vp.frame_count
              /\ vp'.counted = UpTo(vp.frame_count)
              /\ vp.save_output => vp'.frames_written = vp'.frame_count ]_vars

\* C28 witness: the user pressed 'q' during the first frame; the second
\* frame was processed all the same and a crossing was counted in it; the
\* video then ended with both frames written.
C28_Witness ==
    /\ vp.at = "done"
    /\ vp.closed = 1
    /\ ~vp.show_display
    /\ vp.frame_count = 2
    /\ vp.counted = <<1, 2>>
    /\ vp.save_output
    /\ vp.frames_written = 2
    /\ get_total_count(lc) >= 1

====
